---------------------------- MODULE Spec2Model ----------------------------
(***************************************************************************)
(* A model of final_comprehensive_aircraft_crawler.py: the link extractor, *)
(* the exclusion filter, the name classifier, the deduplication loop and   *)
(* the file writer.  Python strings are TLA+ strings; a character is a     *)
(* string of length one.                                                   *)
(***************************************************************************)
EXTENDS Integers, Naturals, Sequences, FiniteSets, TLC

VARIABLES
    html_content,     \* the document handed to extract_aircraft_from_html_content
    pc,               \* position in the run: start, filter, dedup, save, done
    matches,          \* result of re.findall: sequence of [href, title]
    spans,            \* start and end offset of each match (the match objects)
    i,                \* index of the filter loop over matches
    aircraft,         \* list built by the filter loop
    j,                \* index of the deduplication loop over aircraft
    seen_urls,        \* set of urls already kept
    unique_aircraft,  \* the list the function returns
    sorted_aircraft,  \* the list save_aircraft_to_file writes
    file,             \* content of the output file, NoFile when it does not exist
    run,              \* number of the current run of the script
    prev_file,        \* content of the output file when the current run began
    candidate,        \* the name handed to is_aircraft_name
    verdict,          \* what is_aircraft_name returned for it, "none" before the call
    source_html,      \* main: the document of each process_*_aircraft, by nation
    extracting,       \* main: index of the nation whose process_* call is evaluated
    nations_data,     \* main: the catalogs built so far, in the order of the dict
    nation,           \* main: index of the loop over nations_data.items()
    total_aircraft,   \* main: the running total
    files,            \* the output file of each nation
    writes,           \* how many times this run opened the output file of each nation
    console           \* main: the sample of each nation printed by the loop

pipeVars == <<html_content, pc, matches, spans, i, aircraft, j, seen_urls,
              unique_aircraft, sorted_aircraft, file, run, prev_file>>

auxVars == <<candidate, verdict, source_html, extracting, nations_data, nation,
             total_aircraft, files, writes, console>>

vars == <<html_content, pc, matches, spans, i, aircraft, j, seen_urls,
          unique_aircraft, sorted_aircraft, file, run, prev_file,
          candidate, verdict, source_html, extracting, nations_data, nation,
          total_aircraft, files, writes, console>>

-----------------------------------------------------------------------------
(* Bounds of the model *)

MaxLinks == 3

MaxRuns == 2

MaxTokens == 3

NumNations == 2

\* aircraft[:5], the entities main prints as the sample of a nation
SampleSize == 5

-----------------------------------------------------------------------------
(* Characters and strings *)

AsciiLow == " !\"#$%&'()*+,-./0123456789:;<=>?@ABCDEFGHIJKLMNOPQRSTUVWXYZ[\\]^_"

AsciiHigh == "abcdefghijklmnopqrstuvwxyz{|}~"

Control == {"\t", "\n", "\r", "\f"}

At(s, k) == SubSeq(s, k, k)

Character ==
    {At(AsciiLow, k) : k \in 1..Len(AsciiLow)} \cup {At(AsciiHigh, k) : k \in 1..Len(AsciiHigh)}
        \cup Control

ord(c) ==
    CASE c = "\t" -> 9
      [] c = "\n" -> 10
      [] c = "\f" -> 12
      [] c = "\r" -> 13
      [] \E k \in 1..Len(AsciiLow) : At(AsciiLow, k) = c ->
            31 + (CHOOSE k \in 1..Len(AsciiLow) : At(AsciiLow, k) = c)
      [] OTHER -> 96 + (CHOOSE k \in 1..Len(AsciiHigh) : At(AsciiHigh, k) = c)

Ord == [c \in Character |-> ord(c)]

chr(n) == IF n <= 95 THEN At(AsciiLow, n - 31) ELSE At(AsciiHigh, n - 96)

IsUpper(c) == Ord[c] \in 65..90

IsLower(c) == Ord[c] \in 97..122

IsLetter(c) == IsUpper(c) \/ IsLower(c)

IsDigit(c) == Ord[c] \in 48..57

IsSpace(c) == c \in {" ", "\t", "\n", "\r", "\f"}

IsWord(c) == IsLetter(c) \/ IsDigit(c) \/ c = "_"

lowerChar(c) == IF IsUpper(c) THEN chr(Ord[c] + 32) ELSE c

RECURSIVE lower(_)
lower(s) == IF s = "" THEN "" ELSE lowerChar(Head(s)) \o lower(Tail(s))

Contains(s, sub) ==
    \E k \in 1..(Len(s) + 1) : k + Len(sub) - 1 <= Len(s) /\ SubSeq(s, k, k + Len(sub) - 1) = sub

StartsAt(s, k, lit) ==
    k + Len(lit) - 1 <= Len(s) /\ SubSeq(s, k, k + Len(lit) - 1) = lit

RECURSIVE StrLess(_, _)
StrLess(a, b) ==
    IF b = "" THEN FALSE
    ELSE IF a = "" THEN TRUE
    ELSE IF Head(a) = Head(b) THEN StrLess(Tail(a), Tail(b))
    ELSE Ord[Head(a)] < Ord[Head(b)]

StrLeq(a, b) == a = b \/ StrLess(a, b)

-----------------------------------------------------------------------------
(* The document literals of process_*_aircraft: a triple-quoted, non-raw     *)
(* Python string literal, whose backslash escapes Python resolves before the *)
(* text reaches the extractor.                                               *)

RECURSIVE PyLiteral(_)
PyLiteral(src) ==
    IF src = "" THEN ""
    ELSE IF Head(src) = "\\" /\ Len(src) >= 2
    THEN LET e == At(src, 2)
             rest == PyLiteral(SubSeq(src, 3, Len(src)))
         IN  CASE e = "\"" -> "\"" \o rest
               [] e = "'" -> "'" \o rest
               [] e = "\\" -> "\\" \o rest
               [] e = "n" -> "\n" \o rest
               [] e = "t" -> "\t" \o rest
               [] OTHER -> "\\" \o e \o rest
    ELSE Head(src) \o PyLiteral(Tail(src))

-----------------------------------------------------------------------------
(* urllib.parse.unquote, which the script imports: %XX becomes the character *)
(* with that code.                                                           *)

HexDigits == "0123456789ABCDEF"

IsHex(c) == \E k \in 1..Len(HexDigits) : At(HexDigits, k) = c \/ lowerChar(At(HexDigits, k)) = c

HexValue(c) ==
    (CHOOSE k \in 1..Len(HexDigits) : At(HexDigits, k) = c \/ lowerChar(At(HexDigits, k)) = c) - 1

RECURSIVE unquote(_)
unquote(s) ==
    IF s = "" THEN ""
    ELSE IF Head(s) = "%" /\ Len(s) >= 3 /\ IsHex(At(s, 2)) /\ IsHex(At(s, 3))
              /\ HexValue(At(s, 2)) * 16 + HexValue(At(s, 3)) \in (32..95) \cup (97..126)
    THEN chr(HexValue(At(s, 2)) * 16 + HexValue(At(s, 3))) \o unquote(SubSeq(s, 4, Len(s)))
    ELSE Head(s) \o unquote(Tail(s))

-----------------------------------------------------------------------------
(* The link pattern  href="(/[^"]+)"\s+title="([^"]+)"  and re.findall *)

base_url == "https://old-wiki.warthunder.com"

Quote == "\""

HrefOpen == "href=\""

TitleOpen == "title=\""

\* first offset from p on that holds a quote, or Len(s) + 1: the end of a run [^"]*
RECURSIVE NonQuoteEnd(_, _)
NonQuoteEnd(s, p) ==
    IF p > Len(s) \/ At(s, p) = Quote THEN p ELSE NonQuoteEnd(s, p + 1)

\* first offset from p on that holds no whitespace, or Len(s) + 1: the end of a run \s*
RECURSIVE SpaceEnd(_, _)
SpaceEnd(s, p) ==
    IF p > Len(s) \/ ~IsSpace(At(s, p)) THEN p ELSE SpaceEnd(s, p + 1)

\* the group ([^"]+) at p, without the leading slash
PathGroupNoSlash(s, p) == IF NonQuoteEnd(s, p) > p THEN NonQuoteEnd(s, p) ELSE 0

\* the group (/[^"]+) at p: the offset after it, 0 when it does not match
PathGroup(s, p) ==
    IF p <= Len(s) /\ At(s, p) = "/" /\ NonQuoteEnd(s, p + 1) > p + 1
    THEN NonQuoteEnd(s, p + 1)
    ELSE 0

\* \s* at p: the offset after it
SeparatorOptional(s, p) == SpaceEnd(s, p)

\* \s+ at p: the offset after it, 0 when it does not match
Separator(s, p) == IF SpaceEnd(s, p) > p THEN SpaceEnd(s, p) ELSE 0

\* the group ([^"]+) at p: the offset after it, 0 when it does not match
TextGroup(s, p) == IF NonQuoteEnd(s, p) > p THEN NonQuoteEnd(s, p) ELSE 0

NoMatch == [ok |-> FALSE]

\* the match of the link pattern that starts at offset k, if any
MatchAt(s, k) ==
    LET a == k + Len(HrefOpen)
        b == PathGroup(s, a)
        c == IF b > 0 /\ StartsAt(s, b, Quote) THEN Separator(s, b + 1) ELSE 0
        t == c + Len(TitleOpen)
        d == IF c > 0 /\ StartsAt(s, c, TitleOpen) THEN TextGroup(s, t) ELSE 0
    IN  IF StartsAt(s, k, HrefOpen) /\ d > 0 /\ StartsAt(s, d, Quote)
        THEN [ok |-> TRUE, href |-> SubSeq(s, a, b - 1), title |-> SubSeq(s, t, d - 1),
              start |-> k, end |-> d + 1]
        ELSE NoMatch

\* the non-overlapping matches of the link pattern from offset k on, left to right
RECURSIVE Scan(_, _)
Scan(s, k) ==
    IF k > Len(s) THEN <<>>
    ELSE LET m == MatchAt(s, k)
         IN  IF m.ok THEN <<m>> \o Scan(s, m.end) ELSE Scan(s, k + 1)

FindAll(s) == Scan(s, 1)

-----------------------------------------------------------------------------
(* The exclusion filter of extract_aircraft_from_html_content *)

href_skip ==
    {"category:", "help:", "special:", "file:", "template:", "user:", "talk:",
     "index.php", "aviation", "ground_vehicles", "fleet", "main_page",
     "recent_changes", "random", "whatlinkshere", "recentchangeslinked",
     "specialpages", "printable", "images/", "resources/"}

title_skip ==
    {"category", "discussion", "view source", "view history", "aviation",
     "ground vehicles", "fleet", "helicopters", "help", "navigation",
     "recent changes", "random page", "what links here", "related changes",
     "special pages", "printable version", "permanent link", "page information"}

\* the markers looked up in the href as written, without href.lower()
SkipHrefCaseSensitive(href) == \E skip \in href_skip : Contains(href, skip)

SkipHref(href) == \E skip \in href_skip : Contains(lower(href), skip)

SkipTitle(title) == \E skip \in title_skip : Contains(lower(title), skip)

-----------------------------------------------------------------------------
(* is_aircraft_name *)

\* the skip terms without the navigation phrases of the title list
skip_terms_of_classifier_only ==
    {"tutorial", "guide", "book of records", "climbing the ranks", "media",
     "grumman aircraft", "american air forces", "pages in category",
     "terms and conditions", "privacy policy", "contribution agreement",
     "heinkel aircraft", "german aircraft"}

skip_terms ==
    {"category", "discussion", "view source", "view history", "aviation",
     "ground vehicles", "fleet", "helicopters", "help", "navigation",
     "recent changes", "random page", "what links here", "related changes",
     "special pages", "printable version", "permanent link", "page information",
     "tutorial", "guide", "book of records", "climbing the ranks", "media",
     "grumman aircraft", "american air forces", "pages in category",
     "terms and conditions", "privacy policy", "contribution agreement",
     "heinkel aircraft", "german aircraft"}

aircraft_names ==
    {"walrus", "osprey", "catalina", "mariner", "hurricane", "spitfire", "typhoon",
     "tempest", "mustang", "thunderbolt", "lightning", "meteor", "vampire", "venom",
     "hunter", "harrier", "jaguar", "tornado", "phantom", "eagle", "falcon", "hornet",
     "tomcat", "corsair", "hellcat", "wildcat", "bearcat", "skyraider", "skyhawk",
     "intruder", "prowler", "viking", "hawkeye", "greyhound", "seahawk", "super",
     "sabre", "starfighter", "freedom", "fighting", "crusader", "vigilante",
     "fury", "gladiator", "nimrod", "swordfish", "hampden", "blenheim", "beaufort",
     "wellington", "lancaster", "stirling", "halifax", "mosquito", "beaufighter",
     "firefly", "seafire", "wyvern", "attacker", "scimitar", "buccaneer", "canberra",
     "javelin", "swift", "vixen", "strikemaster", "firecrest", "brigand"}

\* name.lower() in skip_terms or any(term in name.lower() for term in skip_terms)
HasSkipTerm(name) ==
    lower(name) \in skip_terms \/ \E term \in skip_terms : Contains(lower(name), term)

\* re.search(r'[A-Za-z]', name)
HasLetter(name) == \E k \in 1..Len(name) : IsLetter(At(name, k))

\* a character of the class [A-Za-z0-9\-\.\(\)\s/\'\"_%]
IsNameChar(c) ==
    IsLetter(c) \/ IsDigit(c) \/ IsSpace(c) \/ c \in {"-", ".", "(", ")", "/", "'", "\"", "_", "%"}

\* re.match(r'^[A-Za-z0-9\-\.\(\)\s/\'\"_%]+$', name)
AllNameChars(name) == Len(name) >= 1 /\ \A k \in 1..Len(name) : IsNameChar(At(name, k))

\* re.search(r'[A-Za-z]', name) and re.search(r'[0-9\-]', name)
has_alphanum(name) ==
    HasLetter(name) /\ \E k \in 1..Len(name) : IsDigit(At(name, k)) \/ At(name, k) = "-"

\* the known names looked up in the name as written, without name.lower()
has_aircraft_name_as_written(name) == \E n \in aircraft_names : Contains(name, n)

\* any(aircraft in name.lower() for aircraft in aircraft_names)
has_aircraft_name(name) == \E n \in aircraft_names : Contains(lower(name), n)

UpperAt(s, k) == k <= Len(s) /\ IsUpper(At(s, k))

DigitAt(s, k) == k <= Len(s) /\ IsDigit(At(s, k))

\* first offset from p on that holds no word character, or Len(s) + 1: the end of \w*
RECURSIVE WordEnd(_, _)
WordEnd(s, p) ==
    IF p > Len(s) \/ ~IsWord(At(s, p)) THEN p ELSE WordEnd(s, p + 1)

\* ^[A-Z]-\d+
PatLetterHyphenDigits(s) == UpperAt(s, 1) /\ StartsAt(s, 2, "-") /\ DigitAt(s, 3)

\* ^[A-Z]\d*[A-Z]? : the digits made optional
PatLetterOptionalDigits(s) == UpperAt(s, 1)

\* ^[A-Z]\d+[A-Z]?
PatLetterDigits(s) == UpperAt(s, 1) /\ DigitAt(s, 2)

\* ^[A-Z]{2,3}-\d+
PatLettersHyphenDigits(s) ==
    \/ UpperAt(s, 1) /\ UpperAt(s, 2) /\ StartsAt(s, 3, "-") /\ DigitAt(s, 4)
    \/ UpperAt(s, 1) /\ UpperAt(s, 2) /\ UpperAt(s, 3) /\ StartsAt(s, 4, "-") /\ DigitAt(s, 5)

\* ^\w+\s+Mk\s+\w+
PatMk(s) ==
    LET a == WordEnd(s, 1)
        b == SpaceEnd(s, a)
        c == SpaceEnd(s, b + 2)
    IN  a > 1 /\ b > a /\ StartsAt(s, b, "Mk") /\ c > b + 2 /\ WordEnd(s, c) > c

\* ^[A-Z][a-z]\s+\d+
PatLetterLowerDigits(s) ==
    /\ UpperAt(s, 1)
    /\ 2 <= Len(s) /\ IsLower(At(s, 2))
    /\ SpaceEnd(s, 3) > 3
    /\ DigitAt(s, SpaceEnd(s, 3))

has_designation(name) ==
    \/ PatLetterHyphenDigits(name)
    \/ PatLetterDigits(name)
    \/ PatLettersHyphenDigits(name)
    \/ PatMk(name)
    \/ PatLetterLowerDigits(name)

is_aircraft_name(name) ==
    IF name = "" \/ Len(name) < 2 THEN FALSE
    ELSE IF HasSkipTerm(name) THEN FALSE
    ELSE IF ~HasLetter(name) THEN FALSE
    ELSE IF ~AllNameChars(name) THEN FALSE
    ELSE has_alphanum(name) \/ has_aircraft_name(name) \/ has_designation(name)

-----------------------------------------------------------------------------
(* The deduplication loop and save_aircraft_to_file.  An entity is the     *)
(* Python tuple (name, url).                                               *)

name_of(e) == e[1]

url_of(e) == e[2]

\* a url built from the percent-decoded href
full_url_decoded(href) == base_url \o unquote(href)

\* full_url = base_url + href
full_url(href) == base_url \o href

\* a deduplication test that never finds a url seen
NotSeenEver(url, seen) == TRUE

\* url not in seen_urls
NotSeen(url, seen) == url \notin seen

\* an insert at the front in place of the append
KeepInFront(unique, e) == <<e>> \o unique

\* unique_aircraft.append((name, url))
Keep(unique, e) == Append(unique, e)

\* a sort key that keeps the case of the name
SortKeyCaseSensitive(x) == name_of(x)

\* key=lambda x: x[0].lower()
SortKey(x) == lower(name_of(x))

\* e goes in front of the elements of equal key: a sort that is not stable
RECURSIVE InsertBeforeEqual(_, _)
InsertBeforeEqual(L, e) ==
    IF L = <<>> THEN <<e>>
    ELSE IF StrLeq(SortKey(e), SortKey(Head(L))) THEN <<e>> \o L
    ELSE <<Head(L)>> \o InsertBeforeEqual(Tail(L), e)

\* L is in key order; e goes after every element whose key is not greater (stable)
RECURSIVE InsertSorted(_, _)
InsertSorted(L, e) ==
    IF L = <<>> THEN <<e>>
    ELSE IF StrLess(SortKey(e), SortKey(Head(L))) THEN <<e>> \o L
    ELSE <<Head(L)>> \o InsertSorted(Tail(L), e)

RECURSIVE SortInto(_, _)
SortInto(acc, L) ==
    IF L = <<>> THEN acc ELSE SortInto(InsertSorted(acc, Head(L)), Tail(L))

\* the list written as it was passed in
unsorted(L) == L

\* sorted(aircraft, key=lambda x: x[0].lower())
sorted(L) == SortInto(<<>>, L)

\* f"{name}|{url}\n"
\* the line written with the url in front of the name
LineUrlFirst(e) == url_of(e) \o "|" \o name_of(e) \o "\n"

Line(e) == name_of(e) \o "|" \o url_of(e) \o "\n"

RECURSIVE WriteLines(_)
WriteLines(L) == IF L = <<>> THEN "" ELSE Line(Head(L)) \o WriteLines(Tail(L))

NoFile == [exists |-> FALSE, content |-> ""]

\* open(full_path, 'a'): the old content is kept
OpenForAppend(f) == f.content

\* open(full_path, 'w'): the content the writes are added to
OpenForWrite(f) == ""

-----------------------------------------------------------------------------
(* Documents: up to MaxLinks pieces of markup, written as in the literals of *)
(* process_*_aircraft.                                                       *)

\* line 183 of the source, as written in the literal
MarinerLine == "href=\"/PBM-1_%22Mariner%22\" title=\"PBM-1 \\\"Mariner\\\"\""

Links ==
    {"href=\"/P-51\" title=\"P-51\"\n",
     "href=\"/P-51\" title=\"p-51\"\n",
     "href=\"/XP-50\" title=\"XP-50\"\n",
     "href=\"/Category:USA\" title=\"Category\"\n",
     MarinerLine \o "\n",
     "href=\"/Galer%27s_F3F-2\" title=\"Galer%27s F3F-2\"\n",
     "href=\"/B-17E\" title=\"B-17E\n(late)\"\n"}

Markup ==
    {"href=\"/P-51\" title=\"P-51\"\n",
     "href=\"/F-8E\"title=\"F-8E\"\n",
     "href=\"/He_111\"\n  title=\"He 111\"\n",
     "title=\"F-4\" href=\"/F-4\"\n",
     "href=\"/Z-1\" title=\"Z-1\n",
     "href=\"F-5\" title=\"F-5\"\n",
     "href=\"/F-6\" title=\"\"\n"}

Chrome ==
    {"href=\"/P-51\" title=\"P-51\"\n",
     "href=\"/Category:USA\" title=\"Category\"\n",
     "href=\"/File:F-16A.png\" title=\"F-16A\"\n",
     "href=\"/F-4\" title=\"F-4 Discussion\"\n",
     "href=\"/F-4\" title=\"F-4C\"\n",
     "href=\"/p-51\" title=\"P-51\"\n",
     "href=\"/Galer%27s_F3F-2\" title=\"Galer%27s F3F-2\"\n"}

Retitled ==
    {"href=\"/F-4\" title=\"F-4 Discussion\"\n",
     "href=\"/F-4\" title=\"Fe\"\n",
     "href=\"/F-4\" title=\"F-4C\"\n",
     "href=\"/F-4\" title=\"F-4E\"\n",
     "href=\"/P-51\" title=\"P-51\"\n"}

RECURSIVE Concatenations(_, _)
Concatenations(pieces, n) ==
    IF n = 0 THEN {""}
    ELSE LET shorter == Concatenations(pieces, n - 1)
         IN  shorter \cup {d \o f : d \in shorter, f \in pieces}

\* the text of the document: the literal with its escapes resolved, piece by piece
Documents(pieces) == Concatenations({PyLiteral(src) : src \in pieces}, MaxLinks)

-----------------------------------------------------------------------------
(* The run of the script on one document *)

InitWith(docs) ==
    /\ html_content \in docs
    /\ pc = "start"
    /\ matches = <<>>
    /\ spans = <<>>
    /\ i = 1
    /\ aircraft = <<>>
    /\ j = 1
    /\ seen_urls = {}
    /\ unique_aircraft = <<>>
    /\ sorted_aircraft = <<>>
    /\ file = NoFile
    /\ run = 1
    /\ prev_file = NoFile
    /\ candidate = ""
    /\ verdict = "none"
    /\ source_html = <<>>
    /\ extracting = 0
    /\ nations_data = <<>>
    /\ nation = 0
    /\ total_aircraft = 0
    /\ files = <<>>
    /\ writes = <<>>
    /\ console = <<>>

Init == InitWith(Documents(Links))

InitMarkup == InitWith(Documents(Markup))

InitChrome == InitWith(Documents(Chrome))

InitRetitled == InitWith(Documents(Retitled))

\* matches = re.findall(link_pattern, html_content)
Extract ==
    /\ pc = "start"
    /\ LET found == FindAll(html_content)
       IN  /\ matches' = [k \in 1..Len(found) |-> <<found[k].href, found[k].title>>]
           /\ spans' = [k \in 1..Len(found) |-> <<found[k].start, found[k].end>>]
    /\ i' = 1
    /\ aircraft' = <<>>
    /\ pc' = "filter"
    /\ UNCHANGED <<html_content, j, seen_urls, unique_aircraft, sorted_aircraft,
                   file, run, prev_file>>
    /\ UNCHANGED auxVars

\* an iteration that drops the pair when its href stood in an earlier pair:
\* the deduplication done before the classification
FilterFirstPairOnly ==
    /\ pc = "filter"
    /\ i <= Len(matches)
    /\ LET href == matches[i][1]
           title == matches[i][2]
       IN  aircraft' =
               IF \E k \in 1..(i - 1) : matches[k][1] = href THEN aircraft
               ELSE IF SkipHref(href) THEN aircraft
               ELSE IF SkipTitle(title) THEN aircraft
               ELSE IF is_aircraft_name(title)
                    THEN Append(aircraft, <<title, full_url(href)>>)
                    ELSE aircraft
    /\ i' = i + 1
    /\ UNCHANGED <<html_content, pc, matches, spans, j, seen_urls, unique_aircraft,
                   sorted_aircraft, file, run, prev_file>>
    /\ UNCHANGED auxVars

\* one iteration of: for href, title in matches
Filter ==
    /\ pc = "filter"
    /\ i <= Len(matches)
    /\ LET href == matches[i][1]
           title == matches[i][2]
       IN  aircraft' =
               IF SkipHref(href) THEN aircraft
               ELSE IF SkipTitle(title) THEN aircraft
               ELSE IF is_aircraft_name(title)
                    THEN Append(aircraft, <<title, full_url(href)>>)
                    ELSE aircraft
    /\ i' = i + 1
    /\ UNCHANGED <<html_content, pc, matches, spans, j, seen_urls, unique_aircraft,
                   sorted_aircraft, file, run, prev_file>>
    /\ UNCHANGED auxVars

\* the set of seen urls kept from the call before, as a module-level set would be
FilterDoneKeepsSeen ==
    /\ pc = "filter"
    /\ i > Len(matches)
    /\ unique_aircraft' = <<>>
    /\ j' = 1
    /\ pc' = "dedup"
    /\ UNCHANGED <<html_content, matches, spans, i, aircraft, sorted_aircraft,
                   file, run, prev_file, seen_urls>>
    /\ UNCHANGED auxVars

\* the filter loop is over: seen_urls = set(); unique_aircraft = []
FilterDone ==
    /\ pc = "filter"
    /\ i > Len(matches)
    /\ seen_urls' = {}
    /\ unique_aircraft' = <<>>
    /\ j' = 1
    /\ pc' = "dedup"
    /\ UNCHANGED <<html_content, matches, spans, i, aircraft, sorted_aircraft,
                   file, run, prev_file>>
    /\ UNCHANGED auxVars

\* one iteration of: for name, url in aircraft
Dedup ==
    /\ pc = "dedup"
    /\ j <= Len(aircraft)
    /\ IF NotSeen(url_of(aircraft[j]), seen_urls)
       THEN /\ seen_urls' = seen_urls \cup {url_of(aircraft[j])}
            /\ unique_aircraft' = Keep(unique_aircraft, aircraft[j])
       ELSE UNCHANGED <<seen_urls, unique_aircraft>>
    /\ j' = j + 1
    /\ UNCHANGED <<html_content, pc, matches, spans, i, aircraft, sorted_aircraft,
                   file, run, prev_file>>
    /\ UNCHANGED auxVars

\* return unique_aircraft: the catalog goes to main, which saves it
Return ==
    /\ pc = "dedup"
    /\ j > Len(aircraft)
    /\ pc' = "save"
    /\ UNCHANGED <<html_content, matches, spans, i, aircraft, j, seen_urls,
                   unique_aircraft, sorted_aircraft, file, run, prev_file>>
    /\ UNCHANGED auxVars

\* save_aircraft_to_file(filename, aircraft) with the returned catalog
Save ==
    /\ pc = "save"
    /\ IF unique_aircraft # <<>>
       THEN /\ sorted_aircraft' = sorted(unique_aircraft)
            /\ file' = [exists |-> TRUE,
                        content |-> OpenForWrite(file) \o WriteLines(sorted_aircraft')]
       ELSE UNCHANGED <<sorted_aircraft, file>>
    /\ pc' = "done"
    /\ UNCHANGED <<html_content, matches, spans, i, aircraft, j, seen_urls,
                   unique_aircraft, run, prev_file>>
    /\ UNCHANGED auxVars

\* the script is run again on the same document, over the files of the last run
Rerun ==
    /\ pc = "done"
    /\ run < MaxRuns
    /\ run' = run + 1
    /\ prev_file' = file
    /\ pc' = "start"
    /\ matches' = <<>>
    /\ spans' = <<>>
    /\ i' = 1
    /\ aircraft' = <<>>
    /\ j' = 1
    /\ seen_urls' = {}
    /\ unique_aircraft' = <<>>
    /\ sorted_aircraft' = <<>>
    /\ UNCHANGED <<html_content, file>>
    /\ UNCHANGED auxVars

Next == Extract \/ Filter \/ FilterDone \/ Dedup \/ Return \/ Save \/ Rerun

Spec == Init /\ [][Next]_vars

SpecMarkup == InitMarkup /\ [][Next]_vars

SpecChrome == InitChrome /\ [][Next]_vars

SpecRetitled == InitRetitled /\ [][Next]_vars

-----------------------------------------------------------------------------
(* is_aircraft_name called on a name of its own *)

NameTokens == {"F", "e", "1", "-", " ", " Mk ", "\t", "!", "Fury", "Help"}

SampleNames == {"F-16A", "Hurricane", "Spitfire Mk IX", "He 111", "Category:Aircraft"}

Names == Concatenations(NameTokens, MaxTokens) \cup SampleNames

InitClassifier ==
    /\ candidate \in Names
    /\ verdict = "none"
    /\ pc = "classify"
    /\ html_content = ""
    /\ matches = <<>>
    /\ spans = <<>>
    /\ i = 1
    /\ aircraft = <<>>
    /\ j = 1
    /\ seen_urls = {}
    /\ unique_aircraft = <<>>
    /\ sorted_aircraft = <<>>
    /\ file = NoFile
    /\ run = 1
    /\ prev_file = NoFile
    /\ source_html = <<>>
    /\ extracting = 0
    /\ nations_data = <<>>
    /\ nation = 0
    /\ total_aircraft = 0
    /\ files = <<>>
    /\ writes = <<>>
    /\ console = <<>>

\* is_aircraft_name(candidate) is called and returns; verdict is the truth value
\* of what it returned (a bool, None or a match object)
Classify ==
    /\ pc = "classify"
    /\ verdict' = is_aircraft_name(candidate)
    /\ pc' = "classified"
    /\ UNCHANGED <<html_content, matches, spans, i, aircraft, j, seen_urls,
                   unique_aircraft, sorted_aircraft, file, run, prev_file>>
    /\ UNCHANGED <<candidate, source_html, extracting, nations_data, nation,
                   total_aircraft, files, writes, console>>

NextClassifier == Classify

SpecClassifier == InitClassifier /\ [][NextClassifier]_vars

-----------------------------------------------------------------------------
(* main: the process_*_aircraft calls of the dict literal, then the loop that *)
(* saves each catalog and adds its length to the total.                       *)

Nations == 1..NumNations

\* the documents of the process_*_aircraft functions
NationDocuments ==
    {"",
     "href=\"/P-51\" title=\"P-51\"\n",
     "href=\"/XP-50\" title=\"XP-50\"\nhref=\"/P-51\" title=\"P-51\"\n"
         \o "href=\"/P-51\" title=\"p-51\"\n",
     "href=\"/Category:USA\" title=\"Category\"\n",
     "href=\"/p-51\" title=\"p-51\"\nhref=\"/P-51\" title=\"P-51\"\n"
         \o "href=\"/XP-50\" title=\"XP-50\"\n",
     "href=\"/XP-50\" title=\"XP-50\"\nhref=\"/p-51\" title=\"p-51\"\n"
         \o "href=\"/P-51\" title=\"P-51\"\n"}

\* a file of data/pages left by an earlier run; data/pages is empty or holds
\* such a file for every nation
EarlierFile == [exists |-> TRUE, content |-> "F-8E|https://old-wiki.warthunder.com/F-8E\n"]

InitMain ==
    /\ source_html \in [Nations -> NationDocuments]
    /\ files \in {[n \in Nations |-> NoFile], [n \in Nations |-> EarlierFile]}
    /\ writes = [n \in Nations |-> 0]
    /\ console = [n \in Nations |-> <<>>]
    /\ extracting = 1
    /\ html_content = source_html[1]
    /\ pc = "start"
    /\ nations_data = <<>>
    /\ nation = 1
    /\ total_aircraft = 0
    /\ matches = <<>>
    /\ spans = <<>>
    /\ i = 1
    /\ aircraft = <<>>
    /\ j = 1
    /\ seen_urls = {}
    /\ unique_aircraft = <<>>
    /\ sorted_aircraft = <<>>
    /\ file = NoFile
    /\ run = 1
    /\ prev_file = NoFile
    /\ candidate = ""
    /\ verdict = "none"

\* return unique_aircraft: the catalog becomes the value of the nation in
\* nations_data, and the next process_*_aircraft call begins; after the last
\* one, total_aircraft = 0 and the loop begins
ProcessReturn ==
    /\ pc = "dedup"
    /\ j > Len(aircraft)
    /\ nations_data' = Append(nations_data, unique_aircraft)
    /\ IF extracting < NumNations
       THEN /\ extracting' = extracting + 1
            /\ html_content' = source_html[extracting + 1]
            /\ pc' = "start"
            /\ UNCHANGED <<nation, total_aircraft>>
       ELSE /\ pc' = "loop"
            /\ nation' = 1
            /\ total_aircraft' = 0
            /\ UNCHANGED <<extracting, html_content>>
    /\ UNCHANGED <<matches, spans, i, aircraft, j, seen_urls, unique_aircraft,
                   sorted_aircraft, file, run, prev_file>>
    /\ UNCHANGED <<candidate, verdict, source_html, files, writes, console>>

\* total_aircraft = len(aircraft), the total replaced in place of increased
CountLast(total, catalog) == Len(catalog)

\* total_aircraft += len(aircraft)
AddCount(total, catalog) == total + Len(catalog)

\* for name, url in aircraft[:5]: print(f"  {name} -> {url}")
Sample(catalog) ==
    SubSeq(catalog, 1, IF Len(catalog) < SampleSize THEN Len(catalog) ELSE SampleSize)

\* one iteration of: for nation, aircraft in nations_data.items(), in which
\* save_aircraft_to_file returns
SaveNation ==
    /\ pc = "loop"
    /\ nation <= NumNations
    /\ IF nations_data[nation] # <<>>
       THEN /\ sorted_aircraft' = sorted(nations_data[nation])
            /\ files' = [files EXCEPT ![nation] =
                   [exists |-> TRUE,
                    content |-> OpenForWrite(files[nation]) \o WriteLines(sorted_aircraft')]]
            /\ writes' = [writes EXCEPT ![nation] = writes[nation] + 1]
       ELSE UNCHANGED <<sorted_aircraft, files, writes>>
    /\ total_aircraft' = AddCount(total_aircraft, nations_data[nation])
    /\ console' = [console EXCEPT ![nation] = Sample(nations_data[nation])]
    /\ nation' = nation + 1
    /\ UNCHANGED <<html_content, pc, matches, spans, i, aircraft, j, seen_urls,
                   unique_aircraft, file, run, prev_file>>
    /\ UNCHANGED <<candidate, verdict, source_html, extracting, nations_data>>

\* the iteration in which open(full_path, 'w') raises OSError: nothing in
\* save_aircraft_to_file or main catches it, and the script ends
SaveNationFails ==
    /\ pc = "loop"
    /\ nation <= NumNations
    /\ nations_data[nation] # <<>>
    /\ pc' = "crashed"
    /\ UNCHANGED <<html_content, matches, spans, i, aircraft, j, seen_urls,
                   unique_aircraft, sorted_aircraft, file, run, prev_file>>
    /\ UNCHANGED auxVars

\* the loop is over: main prints total_aircraft
Summary ==
    /\ pc = "loop"
    /\ nation > NumNations
    /\ pc' = "summary"
    /\ UNCHANGED <<html_content, matches, spans, i, aircraft, j, seen_urls,
                   unique_aircraft, sorted_aircraft, file, run, prev_file>>
    /\ UNCHANGED auxVars

NextMain ==
    \/ Extract \/ Filter \/ FilterDone \/ Dedup
    \/ ProcessReturn \/ SaveNation \/ SaveNationFails \/ Summary

SpecMain == InitMain /\ [][NextMain]_vars

-----------------------------------------------------------------------------
(* Properties *)

\* the function has returned its catalog
Returned == pc \in {"save", "done"}

\* the file of this run has been written
Written == pc = "done" /\ unique_aircraft # <<>>

Occurrences(L, e) == Cardinality({k \in 1..Len(L) : L[k] = e})

IsPermutation(A, B) ==
    Len(A) = Len(B) /\ \A k \in 1..Len(A) : Occurrences(A, A[k]) = Occurrences(B, A[k])

\* the offset in L of the first entity with url u
FirstWithUrl(L, u) ==
    CHOOSE k \in 1..Len(L) : url_of(L[k]) = u /\ \A m \in 1..(k - 1) : url_of(L[m]) # u

SortedByLowerName(L) ==
    \A k \in 1..(Len(L) - 1) : StrLeq(lower(name_of(L[k])), lower(name_of(L[k + 1])))

CountLines(text) == Cardinality({k \in 1..Len(text) : At(text, k) = "\n"})

\* C1: the catalog never holds two entities with the same url, neither while it
\* is built nor once it is returned.
C1_NoDuplicateUrl ==
    \A a, b \in 1..Len(unique_aircraft) :
        a # b => url_of(unique_aircraft[a]) # url_of(unique_aircraft[b])

\* C1 witness: a catalog was returned for a document in which two accepted link
\* pairs share their url.
C1_Witness ==
    /\ Returned
    /\ unique_aircraft # <<>>
    /\ \E a, b \in 1..Len(aircraft) : a # b /\ url_of(aircraft[a]) = url_of(aircraft[b])

\* C2: for every url of the accepted pairs the returned catalog holds exactly one
\* entity, that entity is the first accepted pair with the url (its title is the
\* name kept), the catalog holds nothing else, and its entities stand in the
\* order of their first occurrences.
C2_FirstSeenKept ==
    Returned =>
        /\ \A k \in 1..Len(aircraft) :
              LET u == url_of(aircraft[k])
                  at == {m \in 1..Len(unique_aircraft) : url_of(unique_aircraft[m]) = u}
              IN  /\ Cardinality(at) = 1
                  /\ \A m \in at : unique_aircraft[m] = aircraft[FirstWithUrl(aircraft, u)]
        /\ \A m \in 1..Len(unique_aircraft) :
              \E k \in 1..Len(aircraft) : aircraft[k] = unique_aircraft[m]
        /\ \A m \in 1..(Len(unique_aircraft) - 1) :
              FirstWithUrl(aircraft, url_of(unique_aircraft[m]))
                  < FirstWithUrl(aircraft, url_of(unique_aircraft[m + 1]))

\* C2 witness: the catalog was returned, two accepted pairs share a url under
\* titles of different case, the later one follows a pair with another url, and
\* two entities survive.
C2_Witness ==
    /\ Returned
    /\ Len(unique_aircraft) >= 2
    /\ \E a, b \in 1..Len(aircraft) :
          /\ a + 1 < b
          /\ url_of(aircraft[a]) = url_of(aircraft[b])
          /\ name_of(aircraft[a]) # name_of(aircraft[b])
          /\ lower(name_of(aircraft[a])) = lower(name_of(aircraft[b]))
          /\ url_of(aircraft[a + 1]) # url_of(aircraft[a])

\* C3 as claimed: the catalog the pipeline returns is sorted by lower-cased name.
C3_ReturnedCatalogSorted == Returned => SortedByLowerName(unique_aircraft)

\* C3 as amended: the catalog the pipeline returns keeps the order in which its
\* entities were first accepted, also after it was saved; the sequence that
\* save_aircraft_to_file writes is a re-sorting of it by lower-cased name.
C3_SortedOnlyWhenWritten ==
    /\ Returned =>
          \A m \in 1..(Len(unique_aircraft) - 1) :
              \E a, b \in 1..Len(aircraft) :
                  /\ a < b
                  /\ aircraft[a] = unique_aircraft[m]
                  /\ aircraft[b] = unique_aircraft[m + 1]
                  /\ \A c \in 1..(b - 1) : url_of(aircraft[c]) # url_of(aircraft[b])
    /\ Written =>
          /\ SortedByLowerName(sorted_aircraft)
          /\ IsPermutation(sorted_aircraft, unique_aircraft)

\* C3 witness: a saved catalog whose own order is not the sorted one.
C3_Witness ==
    /\ Written
    /\ ~SortedByLowerName(unique_aircraft)
    /\ sorted_aircraft # unique_aircraft

\* C4: in a written file the entities stand in the order of their lower-cased
\* names, and the file holds exactly the lines of that sequence.
C4_FileSorted ==
    Written =>
        /\ file.exists
        /\ file.content = WriteLines(sorted_aircraft)
        /\ \A k \in 1..(Len(sorted_aircraft) - 1) :
              StrLeq(lower(name_of(sorted_aircraft[k])), lower(name_of(sorted_aircraft[k + 1])))

\* C4 witness: a file was written from a catalog that was passed in out of
\* order, with names that differ in case.
C4_Witness ==
    /\ Written
    /\ Len(unique_aircraft) >= 2
    /\ ~SortedByLowerName(unique_aircraft)
    /\ \E k \in 1..Len(unique_aircraft) : IsLower(Head(name_of(unique_aircraft[k])))
    /\ \E k \in 1..Len(unique_aircraft) : IsUpper(Head(name_of(unique_aircraft[k])))

\* C5 as claimed: a written file has as many lines as the catalog has entities,
\* and is the lines name|url of a permutation of the catalog.
C5_OneLinePerEntity ==
    Written =>
        /\ CountLines(file.content) = Len(unique_aircraft)
        /\ IsPermutation(sorted_aircraft, unique_aircraft)
        /\ file.content = WriteLines(sorted_aircraft)

\* C6: when the script has run again on the same document, the file it leaves
\* is the file the run before it left.
C6_Idempotent == (run >= 2 /\ pc = "done") => file = prev_file

\* C6 witness: the second run has finished and has written a file of two lines
\* or more over the file of the first run.
C6_Witness ==
    /\ run = 2
    /\ Written
    /\ prev_file.exists
    /\ Len(sorted_aircraft) >= 2

\* C7 as claimed: the link of line 183 yields the entity named PBM-1 "Mariner",
\* quotes included, with the url of the undecoded path.
C7_EscapedQuotesRestored ==
    (Returned /\ Contains(html_content, PyLiteral(MarinerLine))) =>
        \E k \in 1..Len(unique_aircraft) :
            unique_aircraft[k] = <<"PBM-1 \"Mariner\"", base_url \o "/PBM-1_%22Mariner%22">>

\* C8 as claimed: a title that holds a percent-escape gives no entity under its
\* undecoded text; when its decoded text passes the filter and the classifier,
\* the url is in the catalog under a decoded name.
C8_TitlePercentDecoded ==
    Returned =>
        \A k \in 1..Len(matches) :
            LET href == matches[k][1]
                title == matches[k][2]
            IN  unquote(title) # title =>
                    /\ \A m \in 1..Len(unique_aircraft) :
                          unique_aircraft[m] # <<title, base_url \o href>>
                    /\ (~SkipHref(href) /\ ~SkipTitle(unquote(title))
                            /\ is_aircraft_name(unquote(title))) =>
                          \E m \in 1..Len(unique_aircraft) :
                              /\ url_of(unique_aircraft[m]) = base_url \o href
                              /\ unquote(name_of(unique_aircraft[m])) = name_of(unique_aircraft[m])

\* re.findall has just returned
Extracted == pc = "filter" /\ i = 1

NoQuoteIn(s, from, to) == \A k \in from..to : At(s, k) # Quote

AllSpaceIn(s, from, to) == \A k \in from..to : IsSpace(At(s, k))

\* Every place of s that reads  href="<path>"<sep>title="<text>"  where <path>
\* is a slash and one character or more, <text> is one character or more,
\* neither holds a quote, and <sep> is whitespace only (possibly none):
\* its offsets, the two texts and the length of <sep>.
LinkShapes(s) ==
    UNION { UNION { UNION {
        { [start |-> p, end |-> c + 2, sep |-> n,
           href |-> SubSeq(s, p + 6, a), title |-> SubSeq(s, a + 9 + n, c)] :
            c \in {c \in (a + 9 + n)..Len(s) :
                      StartsAt(s, c + 1, Quote) /\ NoQuoteIn(s, a + 9 + n, c)} } :
        n \in {n \in 0..Len(s) :
                  StartsAt(s, a + 2 + n, TitleOpen) /\ AllSpaceIn(s, a + 2, a + 1 + n)} } :
        a \in {a \in (p + 7)..Len(s) :
                  StartsAt(s, a + 1, Quote) /\ NoQuoteIn(s, p + 6, a)} } :
        p \in {p \in 1..Len(s) : StartsAt(s, p, HrefOpen) /\ StartsAt(s, p + 6, "/")} }

\* the match k of re.findall is the place x
Emitted(x, k) == spans[k] = <<x.start, x.end>> /\ matches[k] = <<x.href, x.title>>

\* offset p lies inside an earlier match
InsideMatch(p) == \E k \in 1..Len(spans) : spans[k][1] < p /\ p < spans[k][2]

\* C9 as claimed: every place shaped as a link pair, with one whitespace
\* character or none between the two attributes, gives a pair.
C9_OneOrNoWhitespace ==
    Extracted =>
        \A x \in LinkShapes(html_content) :
            x.sep \in {0, 1} => \E k \in 1..Len(matches) : Emitted(x, k)

\* C9 as amended: every place shaped as a link pair with one whitespace character
\* or more between the two attributes, and not begun inside an earlier match,
\* gives a pair; a place with no whitespace between the attributes gives none.
C9_WhitespaceRequired ==
    Extracted =>
        \A x \in LinkShapes(html_content) :
            /\ (x.sep >= 1 /\ ~InsideMatch(x.start)) =>
                  \E k \in 1..Len(matches) : Emitted(x, k)
            /\ x.sep = 0 => \A k \in 1..Len(matches) : spans[k][1] # x.start

\* C9 witness: the document holds a link with one space between the attributes
\* and a link with a line break and two spaces, both extracted, and a link with
\* nothing between the attributes.
C9_Witness ==
    /\ Extracted
    /\ \E x \in LinkShapes(html_content) : x.sep = 0
    /\ \E x \in LinkShapes(html_content) :
          x.sep = 1 /\ \E k \in 1..Len(matches) : Emitted(x, k)
    /\ \E x \in LinkShapes(html_content) :
          x.sep > 1 /\ \E k \in 1..Len(matches) : Emitted(x, k)

\* C10: for any document, well-formed or not, every pair the extraction gives
\* is a place of the document shaped as a link pair (whitespace between the
\* attributes), with the href and the title that stand there; the pairs come in
\* the order of their places and do not overlap.
C10_OnlyShapedPairsInOrder ==
    Extracted =>
        /\ Len(spans) = Len(matches)
        /\ \A k \in 1..Len(matches) :
              \E x \in LinkShapes(html_content) : x.sep >= 1 /\ Emitted(x, k)
        /\ \A k \in 1..(Len(spans) - 1) : spans[k][2] <= spans[k + 1][1]

\* C10 witness: a document with a title before its href, an href without the
\* leading slash and one well-formed link gave exactly one pair.
C10_Witness ==
    /\ Extracted
    /\ Contains(html_content, "title=\"F-4\" href=\"/F-4\"")
    /\ Contains(html_content, "href=\"F-5\" title=\"F-5\"")
    /\ Len(matches) = 1

\* C10 witness, second case: a link whose title lacks the closing quote and a
\* link with an empty title; the one pair given runs on to the next quote.
C10_WitnessUnclosed ==
    /\ Extracted
    /\ Contains(html_content, "title=\"Z-1\nhref=")
    /\ Contains(html_content, "title=\"\"")
    /\ Len(matches) = 1

-----------------------------------------------------------------------------
(* The exclusion filter *)

\* text, lower-cased, holds one of the entries somewhere
HoldsAnyOf(entries, text) ==
    LET low == lower(text)
    IN  \E entry \in entries : \E k \in 1..Len(text) :
            /\ k + Len(entry) - 1 <= Len(text)
            /\ SubSeq(low, k, k + Len(entry) - 1) = entry

\* the path of a url of the catalog: what follows the base address
PathOf(url) == SubSeq(url, Len(base_url) + 1, Len(url))

HasEntityToken(title) ==
    \/ \E k \in 1..Len(title) : IsDigit(At(title, k)) \/ At(title, k) = "-"
    \/ HoldsAnyOf(aircraft_names, title)

\* C11: a link pair whose href, lower-cased, holds a marker of the href list, or
\* whose title, lower-cased, holds a phrase of the navigation list, is dropped:
\* neither the list built by the filter loop nor the catalog ever has an entity
\* whose url path holds a marker or whose name holds a navigation phrase.
C11_DenylistedNeverListed ==
    /\ \A k \in 1..Len(aircraft) :
           /\ ~HoldsAnyOf(href_skip, PathOf(url_of(aircraft[k])))
           /\ ~HoldsAnyOf(title_skip, name_of(aircraft[k]))
    /\ \A k \in 1..Len(unique_aircraft) :
           /\ ~HoldsAnyOf(href_skip, PathOf(url_of(unique_aircraft[k])))
           /\ ~HoldsAnyOf(title_skip, name_of(unique_aircraft[k]))

\* a document with a marker in mixed case under a title that is a plain
\* designation, and a navigation phrase next to a designation, has been
\* processed, and something else of it was kept
C11_Witness ==
    /\ Returned
    /\ unique_aircraft # <<>>
    /\ \E k \in 1..Len(matches) :
           /\ HoldsAnyOf(href_skip, matches[k][1])
           /\ ~HoldsAnyOf(href_skip \cup title_skip \cup skip_terms, matches[k][2])
           /\ HasEntityToken(matches[k][2])
    /\ \E k \in 1..Len(matches) :
           /\ HoldsAnyOf(title_skip, matches[k][2])
           /\ ~HoldsAnyOf(href_skip, matches[k][1])
           /\ HasEntityToken(matches[k][2])

-----------------------------------------------------------------------------
(* The name classifier *)

Classified == pc = "classified"

Letters == "ABCDEFGHIJKLMNOPQRSTUVWXYZabcdefghijklmnopqrstuvwxyz"

Digits == "0123456789"

\* the allowed set: letters, digits, the space and - . ( ) / ' " _ %
AllowedSet == Letters \o Digits \o " -.()/'\"_%"

OccursIn(c, text) == \E k \in 1..Len(text) : At(text, k) = c

SomeOf(text, name) == \E k \in 1..Len(name) : OccursIn(At(name, k), text)

OnlyOf(text, name) == \A k \in 1..Len(name) : OccursIn(At(name, k), text)

\* the four gates, with the allowed set as given
FourGates(name, allowed) ==
    /\ Len(name) >= 2
    /\ ~HoldsAnyOf(skip_terms, name)
    /\ SomeOf(Letters, name)
    /\ OnlyOf(allowed, name)

AlnumMixed(name) == SomeOf(Letters, name) /\ SomeOf(Digits \o "-", name)

KnownName(name) == HoldsAnyOf(aircraft_names, name)

SomeSignal(name) == AlnumMixed(name) \/ KnownName(name) \/ has_designation(name)

\* C12: is_aircraft_name(name) is truthy if and only if the four gates hold
\* (length at least 2, no skip phrase in the lower-cased name, a letter, every
\* character in the allowed set) and one of the three signals holds.
C12_TruthyIffGatesAndSignal ==
    Classified =>
        (verdict = TRUE <=> FourGates(candidate, AllowedSet) /\ SomeSignal(candidate))

\* C12, on the names without a whitespace character other than the space: the
\* equivalence holds for them, and "F-16A" is accepted.
C12_TruthyIffOnSpacedNames ==
    Classified /\ (\A k \in 1..Len(candidate) :
                       IsSpace(At(candidate, k)) => At(candidate, k) = " ") =>
        /\ verdict = TRUE <=> FourGates(candidate, AllowedSet) /\ SomeSignal(candidate)
        /\ candidate = "F-16A" => verdict = TRUE

C12_Witness == Classified /\ candidate = "F-16A" /\ verdict = TRUE

\* C13: a name without a digit and without a hyphen that passes the four gates
\* and holds a known-name fragment is classified as an entity; the alnum-mixed
\* signal is false for it and the known-name signal is the one that admits it.
C13_PureAlphaRescue ==
    /\ Classified
    /\ ~SomeOf(Digits \o "-", candidate)
    /\ FourGates(candidate, AllowedSet)
    /\ KnownName(candidate)
    => /\ verdict = TRUE
       /\ ~has_alphanum(candidate)
       /\ has_aircraft_name(candidate)

C13_Witness ==
    /\ Classified
    /\ candidate = "Hurricane"
    /\ verdict = TRUE
    /\ ~has_alphanum(candidate)
    /\ ~has_designation(candidate)

\* C14: every entity name of the catalog is non-empty, has a letter and consists
\* only of letters, digits, the space and - . ( ) / ' " _ % : a title with any
\* other character, a tab or a line break included, is never admitted.
C14_NamesOfAllowedSetOnly ==
    Returned =>
        \A k \in 1..Len(unique_aircraft) :
            /\ name_of(unique_aircraft[k]) # ""
            /\ SomeOf(Letters, name_of(unique_aircraft[k]))
            /\ OnlyOf(AllowedSet, name_of(unique_aircraft[k]))

-----------------------------------------------------------------------------
(* The url of an entity *)

\* the pair of match k passes the exclusion filter and the classifier
Accepted(k) ==
    /\ ~HoldsAnyOf(href_skip, matches[k][1])
    /\ ~HoldsAnyOf(title_skip, matches[k][2])
    /\ is_aircraft_name(matches[k][2])

\* C15: every entity url of the catalog is the base address followed by an href
\* as it stands in the document, which begins with "/" and has one more
\* character at least; the url is the key of the deduplication: every
\* accepted pair has its url in the catalog, once.
C15_UrlIsBasePlusHrefAsWritten ==
    Returned =>
        /\ LET shapes == LinkShapes(html_content)
           IN  \A k \in 1..Len(unique_aircraft) :
              \E x \in shapes :
                  /\ url_of(unique_aircraft[k]) = base_url \o x.href
                  /\ name_of(unique_aircraft[k]) = x.title
                  /\ At(x.href, 1) = "/"
                  /\ Len(x.href) >= 2
        /\ \A k \in 1..Len(matches) :
              Accepted(k) =>
                  Cardinality({m \in 1..Len(unique_aircraft) :
                      url_of(unique_aircraft[m]) = base_url \o matches[k][1]}) = 1

\* the catalog holds two entities of the same name under urls that differ in
\* case only, and an entity whose href has a percent escape
C15_Witness ==
    /\ Returned
    /\ \E k, m \in 1..Len(unique_aircraft) :
          /\ name_of(unique_aircraft[k]) = name_of(unique_aircraft[m])
          /\ url_of(unique_aircraft[k]) # url_of(unique_aircraft[m])
          /\ lower(url_of(unique_aircraft[k])) = lower(url_of(unique_aircraft[m]))
    /\ \E k \in 1..Len(unique_aircraft) : OccursIn("%", url_of(unique_aircraft[k]))

-----------------------------------------------------------------------------
(* End to end *)

\* the document holds the link to /P-51 titled P-51 and the link to
\* /Category:USA titled Category, and no other link
P51AndCategory ==
    {matches[k] : k \in 1..Len(matches)} =
        {<<"/P-51", "P-51">>, <<"/Category:USA", "Category">>}

\* C16: for a document with a link to /P-51 titled "P-51" and a link to
\* /Category:USA titled "Category" the catalog has exactly one entity, P-51
\* with the url base + /P-51, and the file is the single line P-51|<base>/P-51.
C16_OnlyP51Written ==
    pc = "done" /\ P51AndCategory =>
        /\ unique_aircraft = << <<"P-51", "https://old-wiki.warthunder.com/P-51">> >>
        /\ file = [exists |-> TRUE,
                   content |-> "P-51|https://old-wiki.warthunder.com/P-51\n"]

C16_Witness ==
    /\ pc = "done"
    /\ P51AndCategory
    /\ Len(matches) = 2
    /\ file.exists
    /\ CountLines(file.content) = 1

-----------------------------------------------------------------------------
(* The aggregator *)

InLoop == pc \in {"loop", "crashed", "summary"}

\* the urls of the pairs of a document that pass the filter and the classifier
AcceptedUrls(doc) ==
    LET found == FindAll(doc)
    IN  {base_url \o found[k].href : k \in
            {k \in 1..Len(found) :
                /\ ~HoldsAnyOf(href_skip, found[k].href)
                /\ ~HoldsAnyOf(title_skip, found[k].title)
                /\ is_aircraft_name(found[k].title)}}

\* the sum of the sizes of the first m catalogs
RECURSIVE SizesUpTo(_)
SizesUpTo(m) == IF m = 0 THEN 0 ELSE SizesUpTo(m - 1) + Len(nations_data[m])

RECURSIVE DistinctUrlsUpTo(_)
DistinctUrlsUpTo(m) ==
    IF m = 0 THEN 0
    ELSE DistinctUrlsUpTo(m - 1) + Cardinality(AcceptedUrls(source_html[m]))

\* C17: at every step of the loop the running total is the sum of the sizes of
\* the catalogs processed so far, and after the last source the total is the
\* sum over the sources of the size of the deduplicated catalog, which is the
\* number of distinct accepted urls of the source's document.
C17_TotalIsSumOfCatalogSizes ==
    /\ InLoop => total_aircraft = SizesUpTo(nation - 1)
    /\ pc = "summary" =>
          /\ nation - 1 = NumNations
          /\ Len(nations_data) = NumNations
          /\ total_aircraft = DistinctUrlsUpTo(NumNations)

\* the loop is over, every source has a catalog that is not empty, and one
\* document at least has a url twice
C17_Witness ==
    /\ pc = "summary"
    /\ \A n \in Nations : nations_data[n] # <<>>
    /\ total_aircraft > NumNations
    /\ \E n \in Nations :
          Len(FindAll(source_html[n])) > Cardinality(AcceptedUrls(source_html[n]))

\* the catalog of a document taken alone: the accepted pairs in document order,
\* each url at its first accepted pair
CatalogAlone(doc) ==
    LET found == FindAll(doc)
        good == [k \in 1..Len(found) |->
                    /\ ~HoldsAnyOf(href_skip, found[k].href)
                    /\ ~HoldsAnyOf(title_skip, found[k].title)
                    /\ is_aircraft_name(found[k].title)]
        First(k) == good[k] /\ \A m \in 1..(k - 1) :
                                   good[m] => found[m].href # found[k].href
        kept == SelectSeq([k \in 1..Len(found) |-> k], First)
    IN  [m \in 1..Len(kept) |-> <<found[kept[m]].title, base_url \o found[kept[m]].href>>]

\* C18: the catalog of each source, from the return of its process_* call on,
\* is the catalog of its document taken alone, whatever the documents
\* processed before and after it; a url accepted in the
\* documents of two sources is in both catalogs.
C18_CatalogOfOwnDocumentOnly ==
    /\ pc \in {"start", "loop", "crashed", "summary"} =>
          \A n \in 1..Len(nations_data) : nations_data[n] = CatalogAlone(source_html[n])
    /\ InLoop =>
          LET urls == [n \in Nations |-> AcceptedUrls(source_html[n])]
          IN  \A n, m \in Nations : \A u \in urls[n] :
                  u \in urls[m] =>
                      /\ \E k \in 1..Len(nations_data[n]) : url_of(nations_data[n][k]) = u
                      /\ \E k \in 1..Len(nations_data[m]) : url_of(nations_data[m][k]) = u

\* two sources with different documents have a url in common, kept in both
\* catalogs
C18_Witness ==
    /\ InLoop
    /\ \E n, m \in Nations :
          /\ source_html[n] # source_html[m]
          /\ nations_data[n] # nations_data[m]
          /\ \E k \in 1..Len(nations_data[n]) : \E q \in 1..Len(nations_data[m]) :
                 url_of(nations_data[n][k]) = url_of(nations_data[m][q])

\* the file of nation n holds the catalog of this run, sorted, and nothing else
HoldsCatalog(n) ==
    files[n] = [exists |-> TRUE, content |-> WriteLines(sorted(nations_data[n]))]

\* C19: when the save of one source fails, the run fails for that source only:
\* every other source, the later ones included, is still written and counted.
C19_FailureOfOneSourceOnly ==
    pc = "crashed" =>
        \A n \in Nations \ {nation} :
            /\ nations_data[n] # <<>> => writes[n] = 1 /\ HoldsCatalog(n)
            /\ total_aircraft = SizesUpTo(NumNations) - Len(nations_data[nation])

\* C20: in every run the file of each source is opened once and written in
\* full, also for a source whose catalog is empty; after the run the file of
\* every source holds the catalog of that run and nothing of an earlier run.
C20_EveryFileWrittenOnce ==
    pc = "summary" =>
        \A n \in Nations :
            /\ writes[n] = 1
            /\ HoldsCatalog(n)

\* C20, for the sources whose catalog is not empty: the file is opened once and
\* holds the catalog of this run only, whatever an earlier run left.
C20_NonEmptyCatalogWrittenOnce ==
    pc = "summary" =>
        \A n \in Nations :
            IF nations_data[n] # <<>>
            THEN writes[n] = 1 /\ HoldsCatalog(n)
            ELSE writes[n] = 0

-----------------------------------------------------------------------------
(* First-seen order and the sort *)

\* the offset of entity e in the catalog L (the urls of a catalog are distinct)
PlaceOf(L, e) == CHOOSE k \in 1..Len(L) : L[k] = e

\* the pairs of entities of L whose names are equal when lower-cased stand in M
\* in the order they have in L
KeepsTies(L, M) ==
    \A a, b \in 1..Len(L) :
        (a < b /\ lower(name_of(L[a])) = lower(name_of(L[b]))) =>
            PlaceOf(M, L[a]) < PlaceOf(M, L[b])

\* M is L sorted by lower-cased name with the ties in the order of L
StableSortOf(L, M) == IsPermutation(L, M) /\ SortedByLowerName(M) /\ KeepsTies(L, M)

\* the orders in which the entities of L can be written
Orders(L) ==
    {[k \in 1..Len(L) |-> L[f[k]]] :
        f \in {f \in [1..Len(L) -> 1..Len(L)] : \A a, b \in 1..Len(L) : f[a] = f[b] => a = b}}

\* nation n has been through the loop of main and its file was written
Saved(n) == InLoop /\ n < nation /\ nations_data[n] # <<>>

\* the catalogs of n and m hold the same entities and differ in first-seen order
\* at most, with the ties in the same order
SameUpToOrder(n, m) ==
    IsPermutation(nations_data[n], nations_data[m])
        /\ KeepsTies(nations_data[n], nations_data[m])

FileIsStableSort(n) ==
    \E M \in Orders(nations_data[n]) :
        StableSortOf(nations_data[n], M) /\ files[n].content = WriteLines(M)

\* C21 as claimed: the sort is stable, and the order of the ties is the only
\* effect of first-seen order that can be seen from outside: two sources with
\* the same entities and the same order of ties give the same file and the
\* same printed sample.
C21_OnlyTiesShowFirstSeenOrder ==
    \A n, m \in Nations :
        Saved(n) /\ Saved(m) /\ SameUpToOrder(n, m) =>
            /\ FileIsStableSort(n)
            /\ files[n] = files[m]
            /\ console[n] = console[m]

\* C21 as amended: the written file is the stable sort of the catalog, so it
\* shows first-seen order in the ties only; the sample main prints is the head
\* of the catalog in first-seen order.
C21_FileShowsTiesOnly ==
    \A n, m \in Nations :
        Saved(n) =>
            /\ FileIsStableSort(n)
            /\ console[n] = SubSeq(nations_data[n], 1, Len(console[n]))
            /\ Len(console[n]) = Len(nations_data[n]) \/ Len(console[n]) = 5
            /\ Saved(m) /\ SameUpToOrder(n, m) => files[n] = files[m]

\* a source whose file has a tie in first-seen order against the order of the
\* code points, and two sources with the same entities in different orders, the
\* same file and different samples
C21_Witness ==
    /\ pc = "summary"
    /\ \E n \in Nations : \E a, b \in 1..Len(nations_data[n]) :
          /\ a < b
          /\ lower(name_of(nations_data[n][a])) = lower(name_of(nations_data[n][b]))
          /\ StrLess(name_of(nations_data[n][b]), name_of(nations_data[n][a]))
    /\ \E n, m \in Nations :
          /\ SameUpToOrder(n, m)
          /\ nations_data[n] # nations_data[m]
          /\ files[n] = files[m]
          /\ console[n] # console[m]

-----------------------------------------------------------------------------
(* Deduplication after classification *)

\* the first accepted pair whose url is u
FirstAccepted(u) ==
    CHOOSE k \in 1..Len(matches) :
        /\ Accepted(k) /\ base_url \o matches[k][1] = u
        /\ \A m \in 1..(k - 1) : ~(Accepted(m) /\ base_url \o matches[m][1] = u)

\* C22: the name kept for a url is the title of its first accepted pair, also
\* when earlier pairs of the same href were rejected by the filter or by the
\* classifier; every url with an accepted pair is in the catalog, and the
\* entities stand in the order of their first accepted pairs.
C22_FirstAcceptedPairKept ==
    Returned =>
        /\ \A k \in 1..Len(matches) :
              Accepted(k) => \E q \in 1..Len(unique_aircraft) :
                                 url_of(unique_aircraft[q]) = base_url \o matches[k][1]
        /\ \A q \in 1..Len(unique_aircraft) :
              /\ \E k \in 1..Len(matches) :
                     Accepted(k) /\ base_url \o matches[k][1] = url_of(unique_aircraft[q])
              /\ name_of(unique_aircraft[q]) =
                     matches[FirstAccepted(url_of(unique_aircraft[q]))][2]
        /\ \A q, r \in 1..Len(unique_aircraft) :
              q < r => FirstAccepted(url_of(unique_aircraft[q]))
                           < FirstAccepted(url_of(unique_aircraft[r]))

\* the first pair of /F-4 has a title that passes the filter and that the
\* classifier rejects, a pair of another url follows and is accepted, then a
\* pair of /F-4 with an accepted title: the catalog has the other url first and
\* /F-4 after it under the title of its later pair
C22_Witness ==
    /\ Returned
    /\ Len(matches) = 3
    /\ matches[1][1] = "/F-4"
    /\ ~HoldsAnyOf(title_skip, matches[1][2]) /\ ~is_aircraft_name(matches[1][2])
    /\ matches[2][1] = "/P-51" /\ Accepted(2)
    /\ matches[3][1] = "/F-4" /\ Accepted(3)
    /\ unique_aircraft = << <<"P-51", base_url \o "/P-51">>,
                            <<matches[3][2], base_url \o "/F-4">> >>

\* the same with a first pair of /F-4 that the title check of the filter rejects
C22_WitnessFiltered ==
    /\ Returned
    /\ Len(matches) = 3
    /\ matches[1][1] = "/F-4" /\ HoldsAnyOf(title_skip, matches[1][2])
    /\ matches[2][1] = "/F-4" /\ Accepted(2)
    /\ matches[3][1] = "/F-4" /\ Accepted(3) /\ matches[3][2] # matches[2][2]
    /\ unique_aircraft = << <<matches[2][2], base_url \o "/F-4">> >>

-----------------------------------------------------------------------------
(* The title check of the exclusion filter *)

\* the catalog of a pipeline that has the href check and the classifier and no
\* title check: the first pair of each url among those it accepts
CatalogWithoutTitleCheck(doc) ==
    LET found == FindAll(doc)
        Good(k) == ~HoldsAnyOf(href_skip, found[k].href) /\ is_aircraft_name(found[k].title)
        First(k) == Good(k) /\ \A m \in 1..(k - 1) :
                                   Good(m) => found[m].href # found[k].href
        kept == SelectSeq([k \in 1..Len(found) |-> k], First)
    IN  [m \in 1..Len(kept) |-> <<found[kept[m]].title, base_url \o found[kept[m]].href>>]

\* C23: every navigation phrase of the title list is a skip term of the
\* classifier, looked up in the lower-cased title in the same way, so the
\* pipeline without the title check of the filter returns the same catalog.
C23_TitleCheckSubsumed ==
    /\ title_skip \subseteq skip_terms
    /\ \A k \in 1..Len(matches) :
          HoldsAnyOf(title_skip, matches[k][2]) => ~is_aircraft_name(matches[k][2])
    /\ Returned => unique_aircraft = CatalogWithoutTitleCheck(html_content)

\* a document with a title that holds a navigation phrase next to a designation,
\* under an href without marker, and an accepted pair of the same href after it
C23_Witness ==
    /\ Returned
    /\ unique_aircraft # <<>>
    /\ \E k \in 1..Len(matches) :
          /\ HoldsAnyOf(title_skip, matches[k][2])
          /\ ~HoldsAnyOf(href_skip, matches[k][1])
          /\ HasEntityToken(matches[k][2])
          /\ \E m \in (k + 1)..Len(matches) : matches[m][1] = matches[k][1] /\ Accepted(m)

-----------------------------------------------------------------------------
(* The designation patterns and the alnum-mixed signal *)

\* C24: among the names that pass the four gates, a name matching one of the
\* patterns letter-hyphen-digits, letter-digits-optional-letter,
\* two-or-three-letters-hyphen-digits or letter-lowercase-letter-space-digits
\* is alnum-mixed as well; the result of the classifier is alnum-mixed or
\* known-name or the Mk pattern, and a name admitted without digit, hyphen and
\* known-name fragment matches the Mk pattern.
C24_OnlyMkPatternAddsNames ==
    Classified /\ FourGates(candidate, AllowedSet) =>
        /\ PatLetterHyphenDigits(candidate) => AlnumMixed(candidate)
        /\ PatLetterDigits(candidate) => AlnumMixed(candidate)
        /\ PatLettersHyphenDigits(candidate) => AlnumMixed(candidate)
        /\ PatLetterLowerDigits(candidate) => AlnumMixed(candidate)
        /\ verdict = TRUE <=>
               AlnumMixed(candidate) \/ KnownName(candidate) \/ PatMk(candidate)
        /\ (verdict = TRUE /\ ~SomeOf(Digits \o "-", candidate) /\ ~KnownName(candidate))
               => PatMk(candidate)

\* a name without digit, hyphen and known-name fragment admitted by the Mk
\* pattern
C24_Witness ==
    /\ Classified
    /\ FourGates(candidate, AllowedSet)
    /\ verdict = TRUE
    /\ ~SomeOf(Digits \o "-", candidate)
    /\ ~KnownName(candidate)
    /\ PatMk(candidate)

\* a name matching the letter-lowercase-letter-space-digits pattern is classified
C24_WitnessPatterns ==
    /\ Classified
    /\ verdict = TRUE
    /\ PatLetterLowerDigits(candidate)

=============================================================================
